---------------------------- MODULE Spec2Model ----------------------------
(***************************************************************************)
(* A model of the CHIP-8 interpreter of src/src/chip8.rs and of its call   *)
(* stack, src/src/stack.rs.  The machine state is the Chip8 struct; every  *)
(* instruction handler op_* is an operator from machine state to machine   *)
(* state, and tick is the fetch / decode / execute step built from them.   *)
(*                                                                         *)
(* A process exit (stack.rs calls process::exit) and a Rust panic (an      *)
(* index past the end of memory) end the run: the field status records     *)
(* which, and no operation is enabled afterwards.  The state kept at that  *)
(* point is the state at the moment the process died.                      *)
(*                                                                         *)
(* The field pixels of the struct is written only with zeros (new, reset)  *)
(* and is left out.                                                        *)
(***************************************************************************)
EXTENDS Integers, Sequences, FiniteSets

(***************************************************************************)
(* Program constants.                                                      *)
(***************************************************************************)
MEM_SIZE == 4096
DISPLAY_W == 64
DISPLAY_H == 32
DISPLAY_SIZE == DISPLAY_W * DISPLAY_H
STACK_SIZE == 32
STACK_FULL_TOP == 31
PROG_START == 512
NREG == 16
VF == 15

FONT ==
  << 240, 144, 144, 144, 240,
      32,  96,  32,  32, 112,
     240,  16, 240, 128, 240,
     240,  16, 240,  16, 240,
     144, 144, 240,  16,  16,
     240, 128, 240,  16, 240,
     240, 128, 240, 144, 240,
     240,  16,  32,  64,  64,
     240, 144, 240, 144, 240,
     240, 144, 240,  16, 240,
     240, 144, 240, 144, 144,
     224, 144, 224, 144, 224,
     240, 128, 128, 128, 240,
     224, 144, 144, 144, 224,
     240, 128, 240, 128, 240,
     240, 128, 240, 128, 128 >>

(***************************************************************************)
(* Fixed-width arithmetic of u8 / u16 as the code uses it.                 *)
(***************************************************************************)
Pow2(n) == 2 ^ n

RECURSIVE BitAndN(_, _, _)
BitAndN(a, b, n) ==
  IF n = 0 THEN 0
  ELSE (a % 2) * (b % 2) + 2 * BitAndN(a \div 2, b \div 2, n - 1)

\* a & b on 16-bit operands
BitAnd(a, b) == BitAndN(a, b, 16)

\* (v << s) on a u8, bits shifted out discarded
Shl8(v, s) == (v * Pow2(s)) % 256

\* u8::wrapping_add
wrapping_add(a, b) == (a + b) % 256

\* u8::overflowing_add: <<result, overflowed>>
overflowing_add(a, b) == << (a + b) % 256, a + b > 255 >>

\* u8::overflowing_sub: <<result, overflowed>>
overflowing_sub(a, b) == << (a - b + 256) % 256, a < b >>

\* bool as u8
BoolToU8(b) == IF b THEN 1 ELSE 0

\* Option<u8>
None == << >>
Some(k) == << k >>

(***************************************************************************)
(* Opcode::new: the structural fields of a 16-bit word.                    *)
(***************************************************************************)
Opcode_new(code) ==
  [ code |-> code,
    nnn  |-> BitAnd(code, 4095),
    nn   |-> BitAnd(code, 255),
    n    |-> BitAnd(code, 15),
    x    |-> BitAnd(code, 3840) \div 256,
    y    |-> BitAnd(code, 240) \div 16 ]

(***************************************************************************)
(* stack.rs: a 32-entry array and the index of its top entry (-1: empty).  *)
(* push and pop return the new stack and whether the call reached          *)
(* process::exit(1) instead of returning.                                  *)
(***************************************************************************)
Stack_new == [ stack |-> [i \in 0 .. STACK_SIZE - 1 |-> 0], top |-> -1 ]

\* an is_full that compares top with the capacity, one push too late
is_full_late(s) == s.top = STACK_SIZE

is_full(s) == s.top = STACK_FULL_TOP

is_empty(s) == s.top = -1

push(s, element) ==
  IF is_full(s) = FALSE
  THEN [ st   |-> [ stack |-> [s.stack EXCEPT ![s.top + 1] = element],
                    top   |-> s.top + 1 ],
         exit |-> FALSE ]
  ELSE [ st |-> s, exit |-> TRUE ]

\* a pop that hands back the top element and leaves it on the stack
pop_keep(s) ==
  IF is_empty(s) = FALSE
  THEN [ st |-> s, element |-> s.stack[s.top], exit |-> FALSE ]
  ELSE [ st |-> s, element |-> 0, exit |-> TRUE ]

pop(s) ==
  IF is_empty(s) = FALSE
  THEN [ st      |-> [ stack |-> s.stack, top |-> s.top - 1 ],
         element |-> s.stack[s.top],
         exit    |-> FALSE ]
  ELSE [ st |-> s, element |-> 0, exit |-> TRUE ]

top(s) ==
  IF is_empty(s) = FALSE
  THEN [ element |-> s.stack[s.top], exit |-> FALSE ]
  ELSE [ element |-> 0, exit |-> TRUE ]


(***************************************************************************)
(* Chip8::new.  A machine state is a record of the struct's fields plus    *)
(* status: "running", "exited" (process::exit) or "panicked".              *)
(***************************************************************************)
FontMemory == [i \in 0 .. MEM_SIZE - 1 |-> IF i < Len(FONT) THEN FONT[i + 1] ELSE 0]

Chip8_new ==
  [ pc          |-> PROG_START,
    memory      |-> FontMemory,
    opcode      |-> Opcode_new(0),
    display     |-> [i \in 0 .. DISPLAY_SIZE - 1 |-> FALSE],
    stack       |-> Stack_new,
    reg         |-> [i \in 0 .. NREG - 1 |-> 0],
    reg_i       |-> 0,
    delay_timer |-> 0,
    sound_timer |-> 0,
    keypress    |-> None,
    redraw      |-> FALSE,
    reg_read    |-> << >>,
    reg_write   |-> << >>,
    status      |-> "running" ]

Panic(c) == [c EXCEPT !.status = "panicked"]

Exit(c) == [c EXCEPT !.status = "exited"]

\* a read or write of memory[i] panics when i is past the array
InMemory(i) == i >= 0 /\ i < MEM_SIZE

(***************************************************************************)
(* Chip8::reset: every field but the stack is set as new sets it.          *)
(***************************************************************************)
reset(c) ==
  [c EXCEPT !.memory      = FontMemory,
            !.pc          = PROG_START,
            !.opcode      = Opcode_new(0),
            !.display     = [i \in 0 .. DISPLAY_SIZE - 1 |-> FALSE],
            !.reg         = [i \in 0 .. NREG - 1 |-> 0],
            !.reg_i       = 0,
            !.delay_timer = 0,
            !.sound_timer = 0,
            !.keypress    = None,
            !.redraw      = FALSE,
            !.reg_read    = << >>,
            !.reg_write   = << >>]

(***************************************************************************)
(* Chip8::load_rom.  bytes is the content of the file, which exists and is *)
(* readable.  The slice memory[start..end] is taken before anything is     *)
(* read: when end is past the array the call panics with memory untouched; *)
(* otherwise read_exact fills the slice with the file.                     *)
(***************************************************************************)
load_rom(c, bytes) ==
  LET start == PROG_START
      end   == start + Len(bytes)
  IN  IF end > MEM_SIZE THEN Panic(c)
      ELSE [c EXCEPT !.memory =
              [i \in 0 .. MEM_SIZE - 1 |->
                 IF i >= start /\ i < end THEN bytes[i - start + 1] ELSE c.memory[i]]]

(***************************************************************************)
(* Chip8::load_vec: each word big-endian from 0x200.                       *)
(***************************************************************************)
\* load_vec that stores each word low byte first
RECURSIVE load_vec_from_little(_, _, _)
load_vec_from_little(c, vector, i) ==
  IF i >= Len(vector) THEN c
  ELSE IF ~InMemory((i * 2) + PROG_START + 1) THEN Panic(c)
  ELSE load_vec_from_little(
         [c EXCEPT !.memory[(i * 2) + PROG_START] = BitAnd(vector[i + 1], 255),
                   !.memory[(i * 2) + PROG_START + 1] = BitAnd(vector[i + 1], 65280) \div 256],
         vector, i + 1)

RECURSIVE load_vec_from(_, _, _)
load_vec_from(c, vector, i) ==
  IF i >= Len(vector) THEN c
  ELSE IF ~InMemory((i * 2) + PROG_START + 1) THEN Panic(c)
  ELSE load_vec_from(
         [c EXCEPT !.memory[(i * 2) + PROG_START] = BitAnd(vector[i + 1], 65280) \div 256,
                   !.memory[(i * 2) + PROG_START + 1] = BitAnd(vector[i + 1], 255)],
         vector, i + 1)

load_vec(c, vector) == load_vec_from(c, vector, 0)

(***************************************************************************)
(* Chip8::fetch: the word at pc, pc + 1.  The caller checks InMemory.      *)
(***************************************************************************)
fetch(c) == Opcode_new(c.memory[c.pc] * 256 + c.memory[c.pc + 1])

(***************************************************************************)
(* The instruction handlers.                                               *)
(***************************************************************************)
\* 0NNN that is logged and not executed
op_0nnn_logged(c) == c

op_0nnn(c) == [c EXCEPT !.pc = c.opcode.nnn]

op_00e0(c) == [c EXCEPT !.display = [i \in 0 .. DISPLAY_SIZE - 1 |-> FALSE]]

op_00ee(c) ==
  LET r == pop(c.stack)
  IN  IF r.exit THEN Exit(c)
      ELSE [c EXCEPT !.stack = r.st, !.pc = r.element]

op_1nnn(c) == [c EXCEPT !.pc = c.opcode.nnn]

\* a call that pushes the address of the call itself
op_2nnn_self(c) ==
  LET r == push(c.stack, (c.pc - 2) % 65536)
  IN  IF r.exit THEN Exit(c)
      ELSE [c EXCEPT !.stack = r.st, !.pc = c.opcode.nnn]

op_2nnn(c) ==
  LET r == push(c.stack, c.pc % 65536)
  IN  IF r.exit THEN Exit(c)
      ELSE [c EXCEPT !.stack = r.st, !.pc = c.opcode.nnn]

op_3xnn(c) ==
  LET c1 == [c EXCEPT !.reg_read = Append(@, c.opcode.x)]
  IN  IF c.reg[c.opcode.x] = c.opcode.nn THEN [c1 EXCEPT !.pc = @ + 2] ELSE c1

\* 4XNN that skips when Vx equals NN, as 3XNN does
op_4xnn_eq(c) ==
  LET c1 == [c EXCEPT !.reg_read = Append(@, c.opcode.x)]
  IN  IF c.reg[c.opcode.x] = c.opcode.nn THEN [c1 EXCEPT !.pc = @ + 2] ELSE c1

op_4xnn(c) ==
  LET c1 == [c EXCEPT !.reg_read = Append(@, c.opcode.x)]
  IN  IF c.reg[c.opcode.x] # c.opcode.nn THEN [c1 EXCEPT !.pc = @ + 2] ELSE c1

\* 5XY0 that skips one byte, not one instruction
op_5xy0_byte(c) ==
  LET c1 == [c EXCEPT !.reg_read = Append(Append(@, c.opcode.x), c.opcode.y)]
  IN  IF c.reg[c.opcode.x] = c.reg[c.opcode.y] THEN [c1 EXCEPT !.pc = @ + 1] ELSE c1

op_5xy0(c) ==
  LET c1 == [c EXCEPT !.reg_read = Append(Append(@, c.opcode.x), c.opcode.y)]
  IN  IF c.reg[c.opcode.x] = c.reg[c.opcode.y] THEN [c1 EXCEPT !.pc = @ + 2] ELSE c1

op_6xnn(c) ==
  [c EXCEPT !.reg_write = Append(@, c.opcode.x),
            !.reg[c.opcode.x] = c.opcode.nn]

\* 7XNN that records the carry of the addition in VF
op_7xnn_carry(c) ==
  [c EXCEPT !.reg_write = Append(@, c.opcode.x),
            !.reg[c.opcode.x] = wrapping_add(c.reg[c.opcode.x], c.opcode.nn),
            !.reg[VF] = BoolToU8(c.reg[c.opcode.x] + c.opcode.nn > 255)]

op_7xnn(c) ==
  [c EXCEPT !.reg_write = Append(@, c.opcode.x),
            !.reg[c.opcode.x] = wrapping_add(c.reg[c.opcode.x], c.opcode.nn)]

op_8xy0(c) ==
  [c EXCEPT !.reg_write = Append(@, c.opcode.x),
            !.reg_read = Append(@, c.opcode.y),
            !.reg[c.opcode.x] = c.reg[c.opcode.y]]

\* logged as unimplemented: the body changes nothing
op_8xy1(c) == c

op_8xy2(c) ==
  [c EXCEPT !.reg_read = Append(@, c.opcode.y),
            !.reg_write = Append(@, c.opcode.x),
            !.reg[c.opcode.x] = BitAnd(c.reg[c.opcode.x], c.reg[c.opcode.y])]

op_8xy3(c) == c

\* 8XY4 that writes the flag before the sum, so that the sum wins when x = F
op_8xy4_flag_first(c) ==
  LET vx == c.reg[c.opcode.x]
      vy == c.reg[c.opcode.y]
      r  == overflowing_add(vx, vy)
      regf == [c.reg EXCEPT ![VF] = BoolToU8(r[2])]
      regx == [regf EXCEPT ![c.opcode.x] = r[1]]
  IN  [c EXCEPT !.reg_read = Append(@, c.opcode.y),
                !.reg_write = Append(@, c.opcode.x),
                !.reg = regx]

op_8xy4(c) ==
  LET vx == c.reg[c.opcode.x]
      vy == c.reg[c.opcode.y]
      r  == overflowing_add(vx, vy)
      result == r[1]
      carry  == r[2]
      regx == [c.reg EXCEPT ![c.opcode.x] = result]
      regf == [regx EXCEPT ![VF] = BoolToU8(carry)]
      w1 == Append(c.reg_write, c.opcode.x)
  IN  [c EXCEPT !.reg_read = Append(@, c.opcode.y),
                !.reg_write = IF carry THEN Append(w1, VF) ELSE w1,
                !.reg = regf]

op_8xy5(c) ==
  LET vx == c.reg[c.opcode.x]
      vy == c.reg[c.opcode.y]
      r  == overflowing_sub(vx, vy)
      result == r[1]
      carry  == r[2]
      regx == [c.reg EXCEPT ![c.opcode.x] = result]
      regf == [regx EXCEPT ![VF] = BoolToU8(carry)]
      w1 == Append(c.reg_write, c.opcode.x)
  IN  [c EXCEPT !.reg_read = Append(@, c.opcode.y),
                !.reg_write = IF carry THEN Append(w1, VF) ELSE w1,
                !.reg = regf]

op_8xy6(c) == c

op_8xy7(c) == c

op_8xye(c) == c

op_9xy0(c) == c

op_annn(c) == [c EXCEPT !.reg_i = c.opcode.nnn]

op_bnnn(c) == c

\* rnd is the byte rng.gen_range(0..=255) returned
op_cxnn(c, rnd) ==
  [c EXCEPT !.reg_write = Append(@, c.opcode.x),
            !.reg[c.opcode.x] = BitAnd(rnd, c.opcode.nn)]

(***************************************************************************)
(* op_dxyn.  The two nested loops visit k = sprite_y * 8 + sprite_x in     *)
(* increasing order; every visit reads memory[reg_i + sprite_y].           *)
(***************************************************************************)
\* a draw that sets the pixel instead of flipping it
dxyn_pixel_set(c, offset) ==
  [c EXCEPT !.reg[VF] = BoolToU8(c.display[offset]),
            !.display[offset] = TRUE]

\* the body of the innermost if: VF takes the pixel's value, the pixel flips
dxyn_pixel(c, offset) ==
  [c EXCEPT !.reg[VF] = BoolToU8(c.display[offset]),
            !.display[offset] = ~c.display[offset]]

RECURSIVE dxyn_loop(_, _, _, _)
dxyn_loop(c, vx, vy, k) ==
  LET sprite_y == k \div 8
      sprite_x == k % 8
      addr     == c.reg_i + sprite_y
      offset   == ((vy + sprite_y) * DISPLAY_W) + (vx + sprite_x)
  IN  IF k >= 8 * c.opcode.n THEN c
      ELSE IF ~InMemory(addr) THEN Panic(c)
      ELSE IF BitAnd(Shl8(c.memory[addr], sprite_x), 128) = 128
                /\ offset < DISPLAY_SIZE
           THEN dxyn_loop(dxyn_pixel(c, offset), vx, vy, k + 1)
           ELSE dxyn_loop(c, vx, vy, k + 1)

op_dxyn(c) ==
  LET c1 == [c EXCEPT !.reg_read = Append(Append(@, c.opcode.y), c.opcode.x)]
      r  == dxyn_loop(c1, c.reg[c.opcode.x], c.reg[c.opcode.y], 0)
  IN  IF r.status = "panicked" THEN r ELSE [r EXCEPT !.redraw = TRUE]

op_ex9e(c) == c

op_exa1(c) ==
  LET c1 == [c EXCEPT !.reg_read = Append(@, c.opcode.x)]
  IN  IF c.keypress # None /\ c.keypress[1] # c.reg[c.opcode.x]
      THEN [c1 EXCEPT !.pc = @ + 2]
      ELSE c1

op_fx07(c) ==
  [c EXCEPT !.reg_write = Append(@, c.opcode.x),
            !.reg[c.opcode.x] = c.delay_timer]

op_fx0a(c) == c

op_fx15(c) ==
  [c EXCEPT !.reg_read = Append(@, c.opcode.x),
            !.delay_timer = c.reg[c.opcode.x]]

op_fx18(c) ==
  [c EXCEPT !.reg_read = Append(@, c.opcode.x),
            !.sound_timer = c.reg[c.opcode.x]]

op_fx1e(c) == c

op_fx29(c) ==
  [c EXCEPT !.reg_read = Append(@, c.opcode.x),
            !.reg_i = 5 * c.reg[c.opcode.x]]

\* FX33 that stores the ones digit first and the hundreds digit last
op_fx33_reversed(c) ==
  LET v        == c.reg[c.opcode.x]
      hundreds == (v \div 100) % 10
      tens     == (v \div 10) % 10
      ones     == v % 10
      c1 == [c EXCEPT !.reg_read = Append(@, c.opcode.x)]
  IN  IF ~InMemory(c.reg_i + 2) THEN Panic(c1)
      ELSE [c1 EXCEPT !.memory[c.reg_i] = ones,
                      !.memory[c.reg_i + 1] = tens,
                      !.memory[c.reg_i + 2] = hundreds]

op_fx33(c) ==
  LET v        == c.reg[c.opcode.x]
      hundreds == (v \div 100) % 10
      tens     == (v \div 10) % 10
      ones     == v % 10
      c1 == [c EXCEPT !.reg_read = Append(@, c.opcode.x)]
  IN  IF ~InMemory(c.reg_i) THEN Panic(c1)
      ELSE IF ~InMemory(c.reg_i + 1)
           THEN Panic([c1 EXCEPT !.memory[c.reg_i] = hundreds])
      ELSE IF ~InMemory(c.reg_i + 2)
           THEN Panic([c1 EXCEPT !.memory[c.reg_i] = hundreds,
                                 !.memory[c.reg_i + 1] = tens])
      ELSE [c1 EXCEPT !.memory[c.reg_i] = hundreds,
                      !.memory[c.reg_i + 1] = tens,
                      !.memory[c.reg_i + 2] = ones]

op_fx55(c) == c

RECURSIVE fx65_loop(_, _)
fx65_loop(c, i) ==
  IF i > c.opcode.x THEN c
  ELSE IF ~InMemory(c.reg_i + i) THEN Panic(c)
  ELSE fx65_loop([c EXCEPT !.reg[i] = c.memory[c.reg_i + i]], i + 1)

\* FX65 that fills V0 up to, but not including, Vx
op_fx65_exclusive(c) ==
  LET c1 == [c EXCEPT !.reg_write = [i \in 1 .. NREG |-> i - 1]]
  IN  IF c.opcode.x > 0 /\ ~InMemory(c.reg_i + c.opcode.x - 1) THEN Panic(c1)
      ELSE [c1 EXCEPT !.reg = [i \in 0 .. NREG - 1 |->
                                 IF i < c.opcode.x THEN c.memory[c.reg_i + i]
                                 ELSE c.reg[i]]]

op_fx65(c) ==
  fx65_loop([c EXCEPT !.reg_write = [i \in 1 .. NREG |-> i - 1]], 0)

(***************************************************************************)
(* Chip8::execute: dispatch on the top nibble, then on the low nibble or   *)
(* byte.  An unknown opcode is logged and nothing else happens.            *)
(***************************************************************************)
\* an unknown opcode that is fetched again by the next tick
op_unknown_again(c) == [c EXCEPT !.pc = @ - 2]

\* the arms _ => error!("Unknown opcode ...")
op_unknown(c) == c

execute(c, rnd) ==
  LET code == c.opcode.code
      hi   == BitAnd(code, 61440)
      lo12 == BitAnd(code, 4095)
      lo4  == BitAnd(code, 15)
      lo8  == BitAnd(code, 255)
  IN  CASE hi = 0 ->
             (CASE lo12 = 224 -> op_00e0(c)
                [] lo12 = 238 -> op_00ee(c)
                [] OTHER      -> op_0nnn(c))
        [] hi = 4096  -> op_1nnn(c)
        [] hi = 8192  -> op_2nnn(c)
        [] hi = 12288 -> op_3xnn(c)
        [] hi = 16384 -> op_4xnn(c)
        [] hi = 20480 -> op_5xy0(c)
        [] hi = 24576 -> op_6xnn(c)
        [] hi = 28672 -> op_7xnn(c)
        [] hi = 32768 ->
             (CASE lo4 = 0  -> op_8xy0(c)
                [] lo4 = 1  -> op_8xy1(c)
                [] lo4 = 2  -> op_8xy2(c)
                [] lo4 = 3  -> op_8xy3(c)
                [] lo4 = 4  -> op_8xy4(c)
                [] lo4 = 5  -> op_8xy5(c)
                [] lo4 = 6  -> op_8xy6(c)
                [] lo4 = 7  -> op_8xy7(c)
                [] lo4 = 14 -> op_8xye(c)
                [] OTHER    -> op_unknown(c))
        [] hi = 36864 -> op_9xy0(c)
        [] hi = 40960 -> op_annn(c)
        [] hi = 45056 -> op_bnnn(c)
        [] hi = 49152 -> op_cxnn(c, rnd)
        [] hi = 53248 -> op_dxyn(c)
        [] hi = 57344 ->
             (CASE lo8 = 158 -> op_ex9e(c)
                [] lo8 = 161 -> op_exa1(c)
                [] OTHER     -> op_unknown(c))
        [] hi = 61440 ->
             (CASE lo8 = 7   -> op_fx07(c)
                [] lo8 = 10  -> op_fx0a(c)
                [] lo8 = 21  -> op_fx15(c)
                [] lo8 = 24  -> op_fx18(c)
                [] lo8 = 30  -> op_fx1e(c)
                [] lo8 = 41  -> op_fx29(c)
                [] lo8 = 51  -> op_fx33(c)
                [] lo8 = 85  -> op_fx55(c)
                [] lo8 = 101 -> op_fx65(c)
                [] OTHER     -> op_unknown(c))
        [] OTHER -> op_unknown(c)

(***************************************************************************)
(* Chip8::tick.                                                            *)
(***************************************************************************)
\* timers decremented with wrapping_sub, whatever their value
tick_timers_wrapping(c) ==
  [c EXCEPT !.delay_timer = (@ + 255) % 256,
            !.sound_timer = (@ + 255) % 256]

tick_timers(c) ==
  [c EXCEPT !.delay_timer = IF @ > 0 THEN @ - 1 ELSE @,
            !.sound_timer = IF @ > 0 THEN @ - 1 ELSE @]

tick(c, key, rnd) ==
  LET c0 == [c EXCEPT !.reg_read = << >>, !.reg_write = << >>]
  IN  IF ~InMemory(c0.pc) \/ ~InMemory(c0.pc + 1) THEN Panic(c0)
      ELSE LET c1 == [c0 EXCEPT !.opcode = fetch(c0)]
               c2 == [c1 EXCEPT !.pc = @ + 2]
               c3 == tick_timers(c2)
               c4 == [c3 EXCEPT !.keypress = key]
           IN  execute(c4, rnd)


(***************************************************************************)
(* Programs.  A program is the vector of 16-bit words handed to load_vec.  *)
(* The words are built from their nibbles as the decoder takes them apart. *)
(***************************************************************************)
Word(a, b, c, d) == a * 4096 + b * 256 + c * 16 + d

WordXNN(a, x, nn) == a * 4096 + x * 256 + nn

WordNNN(a, nnn) == a * 4096 + nnn

\* 1NNN to its own address: the i-th word (from 0) of a program that stops
Halt(i) == WordNNN(1, PROG_START + 2 * i)

\* bounds of the programs explored
MaxSmall == 1
MaxTimer == 2
MaxRows == 3
MaxCallDepth == 2
MaxFreeDepth == 2
MaxResets == 1

ByteSamples == {0, 128, 255} \cup (1 .. MaxSmall)

RegPairs == { <<10, 11>>, <<10, 10>>, <<15, 11>>, <<10, 15>> }

AluOps == {4, 5}

AluRoms ==
  { << WordXNN(6, p[1], a), WordXNN(6, p[2], b), Word(8, p[1], p[2], op), Halt(3) >> :
      p \in RegPairs, a \in ByteSamples, b \in ByteSamples, op \in AluOps }

\* the other 8XYN instructions (OR, AND, XOR, shifts, reversed subtraction)
\* on operands as in test_op_8xy2 and on pairs around the byte's ends
LogicOps == {1, 2, 3, 6, 7, 14}

LogicOperands == { <<252, 63>>, <<255, 1>>, <<1, 255>>, <<128, 129>>, <<0, 0>> }

LogicRoms ==
  { << WordXNN(6, 10, v[1]), WordXNN(6, 11, v[2]), Word(8, 10, y, op), Halt(3) >> :
      v \in LogicOperands, y \in {10, 11}, op \in LogicOps }

AddImmRoms ==
  { << WordXNN(6, 15, f), WordXNN(6, x, a), WordXNN(7, x, nn), Halt(3) >> :
      f \in {0, 1}, x \in {10, 15}, a \in ByteSamples, nn \in ByteSamples }

TimerRoms ==
  { << WordXNN(6, 10, t), WordXNN(15, 10, 21), WordXNN(15, 10, 24),
       WordXNN(6, 11, 1), Halt(4) >> : t \in (0 .. MaxTimer) \cup {255} }

\* sprite addresses: glyph "0", glyph "1", and zero bytes past the font
SpritePairs == { <<5, 0>>, <<80, 80>>, <<80, 0>> }

DrawRows == {0, 1, MaxRows}

\* draw the first sprite once, then the second sprite twice in a row
DrawRoms ==
  { << WordXNN(6, 10, vx), WordXNN(6, 11, vy), WordXNN(6, 15, f),
       WordNNN(10, sp[1]), Word(13, 10, 11, n),
       WordNNN(10, sp[2]), Word(13, 10, 11, n), Word(13, 10, 11, n), Halt(8) >> :
      vx \in {0, 62}, vy \in {0, 30}, f \in {0, 1}, sp \in SpritePairs, n \in DrawRows }

\* d nested subroutines: routine k starts at word 8k, calls routine k + 1
\* and returns; the main program (routine 0) stops instead of returning
CallRomWord(d, i) ==
  LET k == i \div 8
  IN  IF i % 8 = 0
      THEN IF k < d THEN WordNNN(2, PROG_START + 16 * (k + 1))
           ELSE IF k = 0 THEN Halt(0) ELSE 238
      ELSE IF i % 8 = 1 /\ k < d
           THEN IF k = 0 THEN Halt(1) ELSE 238
           ELSE 0

CallRom(d) == [i \in 1 .. 8 * d + 2 |-> CallRomWord(d, i - 1)]

CallRoms == { CallRom(d) : d \in 0 .. MaxCallDepth }

\* a conditional skip (3XNN, 4XNN, 5XY0, 9XY0) after loading Vx and Vy; the
\* immediate NN of 3XNN and 4XNN is the value loaded into Vy
SkipOperands == { <<a, b>> : a \in ByteSamples, b \in {0, 255} }

SkipWords(b) ==
  { WordXNN(3, 10, b), WordXNN(4, 10, b), Word(5, 10, 11, 0), Word(9, 10, 11, 0) }

SkipRoms ==
  UNION { { << WordXNN(6, 10, v[1]), WordXNN(6, 11, v[2]), w, Halt(3), Halt(4) >> :
              w \in SkipWords(v[2]) } : v \in SkipOperands }

\* the key instructions EX9E, EXA1 and FX0A with Vx the key 0 .. MaxSmall
KeyWords == { WordXNN(14, 10, 158), WordXNN(14, 10, 161), WordXNN(15, 10, 10) }

KeyRoms ==
  { << WordXNN(6, 10, k), w, Halt(2), Halt(3) >> : k \in 0 .. MaxSmall, w \in KeyWords }

\* FX33 of a sampled byte with I in the font, across its end, and in free
\* memory
BcdAddrs == {0, Len(FONT) - 2, PROG_START + 256}

BcdRoms ==
  { << WordXNN(6, 10, v), WordNNN(10, addr), WordXNN(15, 10, 51), Halt(3) >> :
      v \in ByteSamples, addr \in BcdAddrs }

\* FX33 of values whose digits differ, with I in free memory
BcdDigitRoms ==
  { << WordXNN(6, 10, v), WordNNN(10, PROG_START + 256), WordXNN(15, 10, 51), Halt(3) >> :
      v \in {9, 10, 99, 100, 123, 200} }

\* FX55 of V0 and V1 into free memory
StoreRoms ==
  { << WordXNN(6, 0, v), WordXNN(6, 1, 255), WordNNN(10, PROG_START + 256),
       WordXNN(15, 1, 85), Halt(4) >> : v \in {1, 128} }

\* FX65 of V0 .. Vx from the font and from the program itself, with V2 = 7
FillRoms ==
  { << WordXNN(6, 2, 7), WordNNN(10, addr), WordXNN(15, x, 101), Halt(3) >> :
      addr \in {0, PROG_START}, x \in {0, 1, NREG - 1} }

\* the instructions that address memory through I (FX33, FX55, FX65 with
\* x = 1, DXY2) with I in the last three bytes of memory, and a jump to the
\* last byte
EdgeWords == { WordXNN(15, 1, 51), WordXNN(15, 1, 85), WordXNN(15, 1, 101),
               Word(13, 0, 0, 2) }

EdgeRoms ==
  { << WordNNN(10, addr), w, Halt(2) >> :
      addr \in MEM_SIZE - 3 .. MEM_SIZE - 1, w \in EdgeWords }
    \cup { << WordNNN(1, MEM_SIZE - 1) >> }

\* words no arm of execute recognizes, after loading V[A] and I
UnknownWords ==
  { Word(8, 10, 11, n) : n \in (8 .. 13) \cup {15} }
    \cup { WordXNN(14, 10, nn) : nn \in {0, 157, 159, 160, 162, 255} }
    \cup { WordXNN(15, 10, nn) : nn \in {0, 8, 11, 50, 86, 102, 255} }

UnknownRoms ==
  { << WordXNN(6, 10, 255), WordNNN(10, PROG_START + 256), w, Halt(3) >> :
      w \in UnknownWords }

\* 0NNN to the next word and to the word after it, after loading V[A] and I
MachineCallRoms ==
  { << WordXNN(6, 10, 255), WordNNN(10, PROG_START + 256),
       WordNNN(0, PROG_START + 2 * t), Halt(3), Halt(4) >> : t \in {3, 4} }

\* 00E0 on the cleared display, and after drawing glyph "0"
ClearRoms ==
  { << 224, Halt(1) >>, << Word(13, 10, 11, MaxRows), 224, Halt(2) >> }

\* a return with nothing to return to, and a routine that calls itself
StackFaultRoms == { << 238 >>, << WordNNN(2, PROG_START) >> }

Roms == AluRoms \cup AddImmRoms \cup TimerRoms \cup DrawRoms \cup CallRoms
          \cup StackFaultRoms \cup SkipRoms \cup KeyRoms \cup BcdRoms \cup EdgeRoms
          \cup UnknownRoms \cup MachineCallRoms \cup ClearRoms
          \cup BcdDigitRoms \cup StoreRoms \cup FillRoms \cup LogicRoms

\* ROM files: the bytes of a program, big-endian, as they are, or followed
\* by zeros up to the largest file that fits and the smallest that does not
FileBytes(v) ==
  [i \in 1 .. 2 * Len(v) |->
     IF i % 2 = 1 THEN v[(i + 1) \div 2] \div 256 ELSE v[i \div 2] % 256]

Padded(bytes, size) == [i \in 1 .. size |-> IF i <= Len(bytes) THEN bytes[i] ELSE 0]

RomSizes(bytes) == {Len(bytes), MEM_SIZE - PROG_START, MEM_SIZE - PROG_START + 1}

\* a program that sets a register and the delay timer and draws glyph "0"
ShowRom ==
  << WordXNN(6, 10, MaxTimer), WordXNN(15, 10, 21), Word(13, 10, 11, MaxRows), Halt(3) >>

RomPrograms == { CallRom(d) : d \in 1 .. MaxCallDepth } \cup { ShowRom }

RomFiles ==
  UNION { { Padded(FileBytes(v), size) : size \in RomSizes(FileBytes(v)) } :
            v \in RomPrograms }

\* the key the frontend reports with a tick: none, or key 1
Keys == {None, Some(1)}

RandBytes == ByteSamples

(***************************************************************************)
(* The state machine.  The variables are the fields of the Chip8 struct,   *)
(* the state of the process (status), and two records of the run: step,    *)
(* the operation that produced the state, and old, the machine state that  *)
(* operation started from.  shadow is the sequence of elements pushed and  *)
(* not yet popped, kept beside the stack as a reference; ret is the value   *)
(* the last call of pop or top returned; resets counts the calls of reset; *)
(* loaded is the vector handed to load_vec, empty when there was none.     *)
(***************************************************************************)
VARIABLES pc, opcode, memory, display, stack, reg, reg_i, delay_timer,
          sound_timer, keypress, redraw, reg_read, reg_write, status,
          step, old, shadow, ret, resets, loaded

vars == << pc, opcode, memory, display, stack, reg, reg_i, delay_timer,
           sound_timer, keypress, redraw, reg_read, reg_write, status,
           step, old, shadow, ret, resets, loaded >>

Self ==
  [ pc          |-> pc,
    memory      |-> memory,
    opcode      |-> opcode,
    display     |-> display,
    stack       |-> stack,
    reg         |-> reg,
    reg_i       |-> reg_i,
    delay_timer |-> delay_timer,
    sound_timer |-> sound_timer,
    keypress    |-> keypress,
    redraw      |-> redraw,
    reg_read    |-> reg_read,
    reg_write   |-> reg_write,
    status      |-> status ]

Becomes(c) ==
  /\ pc' = c.pc
  /\ memory' = c.memory
  /\ opcode' = c.opcode
  /\ display' = c.display
  /\ stack' = c.stack
  /\ reg' = c.reg
  /\ reg_i' = c.reg_i
  /\ delay_timer' = c.delay_timer
  /\ sound_timer' = c.sound_timer
  /\ keypress' = c.keypress
  /\ redraw' = c.redraw
  /\ reg_read' = c.reg_read
  /\ reg_write' = c.reg_write
  /\ status' = c.status

Is(c) ==
  /\ pc = c.pc
  /\ memory = c.memory
  /\ opcode = c.opcode
  /\ display = c.display
  /\ stack = c.stack
  /\ reg = c.reg
  /\ reg_i = c.reg_i
  /\ delay_timer = c.delay_timer
  /\ sound_timer = c.sound_timer
  /\ keypress = c.keypress
  /\ redraw = c.redraw
  /\ reg_read = c.reg_read
  /\ reg_write = c.reg_write
  /\ status = c.status

Init ==
  /\ Is(Chip8_new)
  /\ step = "new"
  /\ old = Chip8_new
  /\ shadow = << >>
  /\ ret = None
  /\ resets = 0
  /\ loaded = << >>


(***************************************************************************)
(* The frontend loads a program into the fresh machine (main.rs: new, then *)
(* load, then the tick loop) and calls tick once per instruction with the  *)
(* key that is down, if any.                                               *)
(***************************************************************************)
LoadVec(vector) ==
  /\ step = "new"
  /\ status = "running"
  /\ Becomes(load_vec(Self, vector))
  /\ step' = "load_vec"
  /\ old' = Self
  /\ loaded' = vector
  /\ UNCHANGED << shadow, ret, resets >>

\* main.rs loads the file named on the command line into the new machine;
\* app.rs loads the file picked in the menu right after reset
LoadRom(bytes) ==
  /\ step \in {"new", "reset"}
  /\ status = "running"
  /\ Becomes(load_rom(Self, bytes))
  /\ step' = "load_rom"
  /\ old' = Self
  /\ UNCHANGED << shadow, ret, resets, loaded >>

\* app.rs: the menu entry that loads a ROM resets the running machine first
Reset ==
  /\ step \in {"load_vec", "load_rom", "tick", "blit"}
  /\ status = "running"
  /\ resets < MaxResets
  /\ Becomes(reset(Self))
  /\ step' = "reset"
  /\ old' = Self
  /\ resets' = resets + 1
  /\ UNCHANGED << shadow, ret, loaded >>

IsCall(code) == BitAnd(code, 61440) = 8192

IsReturn(code) == code = 238

\* the random byte is drawn only by CXNN
RndChoices(c) ==
  IF InMemory(c.pc + 1) /\ BitAnd(fetch(c).code, 61440) = 49152
  THEN RandBytes ELSE {0}

ShadowAfterTick(c, r) ==
  IF r.status # "running" THEN shadow
  ELSE IF IsCall(r.opcode.code) THEN Append(shadow, c.pc + 2)
  ELSE IF IsReturn(r.opcode.code) THEN SubSeq(shadow, 1, Len(shadow) - 1)
  ELSE shadow

Tick(key) ==
  /\ step \notin {"new", "reset"}
  /\ status = "running"
  /\ \E rnd \in RndChoices(Self) :
       LET r == tick(Self, key, rnd)
       IN  /\ Becomes(r)
           /\ shadow' = ShadowAfterTick(Self, r)
  /\ step' = "tick"
  /\ old' = Self
  /\ UNCHANGED << ret, resets, loaded >>

\* main.rs: after a tick the frontend blits the display when redraw is set
\* and clears the flag
Blit ==
  /\ status = "running"
  /\ redraw
  /\ redraw' = FALSE
  /\ step' = "blit"
  /\ old' = Self
  /\ UNCHANGED << pc, opcode, memory, display, stack, reg, reg_i, delay_timer,
                  sound_timer, keypress, reg_read, reg_write, status, shadow, ret,
                  resets, loaded >>

Next ==
  \/ \E vector \in Roms : LoadVec(vector)
  \/ \E key \in Keys : Tick(key)
  \/ Blit

Spec == Init /\ [][Next]_vars

(***************************************************************************)
(* The machine as the two frontends drive it: main.rs loads a ROM file     *)
(* into the new machine and ticks; the menu of app.rs resets the machine   *)
(* and loads another file, up to MaxResets times.                          *)
(***************************************************************************)
NextMenu ==
  \/ \E bytes \in RomFiles : LoadRom(bytes)
  \/ Reset
  \/ \E key \in Keys : Tick(key)
  \/ Blit

SpecMenu == Init /\ [][NextMenu]_vars

(***************************************************************************)
(* The call stack on its own, driven as its unit tests drive it: calls of  *)
(* push, pop and top in any order.  The element pushed into slot d is      *)
(* PROG_START + 2 * d, or, in the lowest MaxFreeDepth slots, d + 1.        *)
(***************************************************************************)
PushElements(s) ==
  LET d == s.top + 1
  IN  {PROG_START + 2 * d} \cup (IF d < MaxFreeDepth THEN {d + 1} ELSE {})

InStackTest == step \in {"new", "push", "pop", "top"}

unchanged_machine ==
  UNCHANGED << pc, opcode, memory, display, reg, reg_i, delay_timer,
               sound_timer, keypress, redraw, reg_read, reg_write, resets,
               loaded >>

StackPush(element) ==
  /\ InStackTest
  /\ status = "running"
  /\ LET r == push(stack, element)
     IN  IF r.exit
         THEN status' = "exited" /\ UNCHANGED << stack, shadow >>
         ELSE /\ stack' = r.st
              /\ shadow' = Append(shadow, element)
              /\ UNCHANGED status
  /\ step' = "push"
  /\ old' = Self
  /\ ret' = None
  /\ unchanged_machine

StackPop ==
  /\ InStackTest
  /\ status = "running"
  /\ LET r == pop(stack)
     IN  IF r.exit
         THEN status' = "exited" /\ ret' = None /\ UNCHANGED << stack, shadow >>
         ELSE /\ stack' = r.st
              /\ ret' = Some(r.element)
              /\ shadow' = SubSeq(shadow, 1, Len(shadow) - 1)
              /\ UNCHANGED status
  /\ step' = "pop"
  /\ old' = Self
  /\ unchanged_machine

StackTop ==
  /\ InStackTest
  /\ status = "running"
  /\ LET r == top(stack)
     IN  IF r.exit
         THEN status' = "exited" /\ ret' = None
         ELSE ret' = Some(r.element) /\ UNCHANGED status
  /\ step' = "top"
  /\ old' = Self
  /\ UNCHANGED << stack, shadow >>
  /\ unchanged_machine

NextStack ==
  \/ \E element \in PushElements(stack) : StackPush(element)
  \/ StackPop
  \/ StackTop

SpecStack == Init /\ [][NextStack]_vars


(***************************************************************************)
(* What the claims speak of: the instruction the last tick executed and    *)
(* its operands as they were when it was fetched.                          *)
(***************************************************************************)
Ticked == step = "tick" /\ status = "running"

OpClass == opcode.code \div 4096

IsDraw == OpClass = 13

IsAlu(op) == OpClass = 8 /\ opcode.n = op

IsF(low) == OpClass = 15 /\ opcode.nn = low

OldVx == old.reg[opcode.x]

OldVy == old.reg[opcode.y]

Pixels == 0 .. DISPLAY_SIZE - 1

Cleared(d) == \A i \in Pixels : ~d[i]

(***************************************************************************)
(* C1.  A tick never decrements a timer: after executing any instruction   *)
(* other than FX15 the delay timer is what it was before the tick, and     *)
(* after any instruction other than FX18 so is the sound timer.            *)
(***************************************************************************)
C1_TickKeepsTimers ==
  Ticked =>
    /\ (~IsF(21) => delay_timer = old.delay_timer)
    /\ (~IsF(24) => sound_timer = old.sound_timer)

(***************************************************************************)
(* C2.  After DXYN, VF is 1 if the draw flipped at least one pixel from    *)
(* set to unset and 0 otherwise, whatever VF held before.                  *)
(***************************************************************************)
C2_DrawCollisionFlag ==
  Ticked /\ IsDraw =>
    reg[VF] = (IF \E i \in Pixels : old.display[i] /\ ~display[i] THEN 1 ELSE 0)

(***************************************************************************)
(* C3.  Draw idempotence.  SameDrawAgain holds right after a DXYN that     *)
(* started from a cleared display when the next instruction is the same    *)
(* DXYN word with the same I, Vx, Vy and sprite bytes.                     *)
(***************************************************************************)
SameDrawAgain ==
  /\ Ticked /\ IsDraw
  /\ Cleared(old.display)
  /\ InMemory(pc + 1)
  /\ fetch(Self).code = opcode.code
  /\ reg_i = old.reg_i
  /\ memory = old.memory
  /\ reg[opcode.x] = OldVx
  /\ reg[opcode.y] = OldVy

SecondDraw == step' = "tick" /\ status' = "running"

C4_DrawClips ==
  Ticked /\ IsDraw =>
    \A i \in Pixels :
      display[i] # old.display[i] =>
        \E dy \in 0 .. opcode.n - 1 : \E dx \in 0 .. 7 :
          /\ OldVy + dy < DISPLAY_H
          /\ OldVx + dx < DISPLAY_W
          /\ i = (OldVy + dy) * DISPLAY_W + (OldVx + dx)

(***************************************************************************)
(* C5.  8XY5 (x other than F) sets Vx to (Vx - Vy) mod 256 and VF to 1     *)
(* exactly when Vx >= Vy held before the subtraction, to 0 when Vx < Vy.   *)
(***************************************************************************)
C5_SubBorrowFlag ==
  Ticked /\ IsAlu(5) /\ opcode.x # VF =>
    /\ reg[opcode.x] = (OldVx - OldVy) % 256
    /\ reg[VF] = (IF OldVx >= OldVy THEN 1 ELSE 0)

(***************************************************************************)
(* C6.  8XY4 sets Vx to (Vx + Vy) mod 256 (x other than F) and VF to 1     *)
(* exactly when Vx + Vy > 255, to 0 otherwise; with x = F the flag is what *)
(* stays in VF; every register other than Vx and VF, Vy among them, keeps  *)
(* its value.                                                              *)
(***************************************************************************)
C6_AddCarry ==
  Ticked /\ IsAlu(4) =>
    /\ opcode.x # VF => reg[opcode.x] = (OldVx + OldVy) % 256
    /\ reg[VF] = (IF OldVx + OldVy > 255 THEN 1 ELSE 0)
    /\ \A r \in 0 .. NREG - 1 : r \notin {opcode.x, VF} => reg[r] = old.reg[r]

\* an addition that carried, with Vy a register of its own
C6_Witness ==
  /\ Ticked /\ IsAlu(4)
  /\ opcode.x = 10 /\ opcode.y = 11
  /\ OldVx = 255 /\ OldVy = 1
  /\ reg[10] = 0 /\ reg[11] = 1 /\ reg[VF] = 1

(***************************************************************************)
(* C7.  7XNN sets Vx to (Vx + NN) mod 256 and changes no other register:   *)
(* for x other than F, VF keeps its value whether or not the sum wrapped.  *)
(***************************************************************************)
C7_AddImmediate ==
  Ticked /\ OpClass = 7 =>
    /\ reg[opcode.x] = (OldVx + opcode.nn) % 256
    /\ \A r \in 0 .. NREG - 1 : r # opcode.x => reg[r] = old.reg[r]

\* a sum that wrapped, leaving a VF of 0 at 0
C7_Witness ==
  /\ Ticked /\ OpClass = 7
  /\ opcode.x = 10
  /\ OldVx + opcode.nn > 255
  /\ old.reg[VF] = 0 /\ reg[VF] = 0
  /\ reg[10] = (OldVx + opcode.nn) - 256

(***************************************************************************)
(* C8.  A stack fault is returned to the caller and never ends the         *)
(* process: after 2NNN on a full stack, or 00EE on an empty one, the       *)
(* machine is still running and the stack is as it was.                    *)
(***************************************************************************)
C8_StackFaultReturned ==
  /\ step = "tick"
  /\ \/ IsCall(opcode.code) /\ is_full(old.stack)
     \/ IsReturn(opcode.code) /\ is_empty(old.stack)
  => status = "running" /\ stack = old.stack


(***************************************************************************)
(* C9.  The stack is last-in first-out.  The live part of the array is     *)
(* always the sequence of elements pushed and not yet popped, a pop        *)
(* returns the last of them and lowers the depth by one, and a pop right   *)
(* after a push returns the element pushed and restores the depth.         *)
(***************************************************************************)
StackMatchesShadow ==
  /\ Len(shadow) = stack.top + 1
  /\ \A i \in 1 .. Len(shadow) : stack.stack[i - 1] = shadow[i]

PopReturnsLast ==
  step' = "pop" /\ status' = "running" =>
    /\ Len(shadow) > 0
    /\ ret' = Some(shadow[Len(shadow)])
    /\ stack'.top = stack.top - 1
    /\ (step = "push" /\ status = "running" => stack'.top = old.stack.top)

C9_StackLifo == [] StackMatchesShadow /\ [][PopReturnsLast]_vars

\* all 32 slots were pushed and the last pop, of the first element, left the
\* stack empty
C9_Witness ==
  /\ step = "pop" /\ status = "running"
  /\ stack.stack[STACK_SIZE - 1] = PROG_START + 2 * (STACK_SIZE - 1)
  /\ stack.top = -1
  /\ ret = Some(1)

(***************************************************************************)
(* C10.  Call and return.  2NNN fetched at A pushes A + 2 above the        *)
(* entries already there and sets pc to NNN; 00EE sets pc to the address   *)
(* the matching call pushed (the last call not yet returned from) and      *)
(* restores the depth that held before that call.                          *)
(***************************************************************************)
CallPushesNext ==
  Ticked /\ IsCall(opcode.code) =>
    /\ pc = opcode.nnn
    /\ stack.top = old.stack.top + 1
    /\ stack.stack[stack.top] = old.pc + 2
    /\ \A i \in 0 .. old.stack.top : stack.stack[i] = old.stack.stack[i]

ReturnGoesBack ==
  step' = "tick" /\ status' = "running" /\ IsReturn(opcode'.code) =>
    /\ Len(shadow) > 0
    /\ pc' = shadow[Len(shadow)]
    /\ stack'.top = stack.top - 1

C10_CallReturn ==
  [] (CallPushesNext /\ StackMatchesShadow) /\ [][ReturnGoesBack]_vars

\* the inner of two nested routines has returned into the outer one
C10_Witness ==
  /\ Ticked /\ IsReturn(opcode.code)
  /\ old.pc = PROG_START + 32
  /\ pc = PROG_START + 18
  /\ old.stack.top = 1 /\ stack.top = 0
  /\ shadow = << PROG_START + 2 >>

(***************************************************************************)
(* C11.  3XNN, 4XNN and 5XY0 fetched at A leave pc at A + 4 when their     *)
(* condition holds (Vx = NN, Vx # NN, Vx = Vy) and at A + 2 otherwise, and *)
(* change no register.                                                     *)
(***************************************************************************)
SkipCondition ==
  CASE OpClass = 3 -> OldVx = opcode.nn
    [] OpClass = 4 -> OldVx # opcode.nn
    [] OpClass = 5 -> OldVx = OldVy
    [] OTHER -> FALSE

C11_ConditionalSkips ==
  Ticked /\ (OpClass \in {3, 4} \/ (OpClass = 5 /\ opcode.n = 0)) =>
    /\ pc = old.pc + (IF SkipCondition THEN 4 ELSE 2)
    /\ reg = old.reg

\* 4XNN skipped because Vx = 128 differs from NN = 0
C11_Witness ==
  /\ Ticked /\ OpClass = 4
  /\ OldVx = 128 /\ opcode.nn = 0
  /\ pc = old.pc + 4
  /\ reg = old.reg

(***************************************************************************)
(* C12.  9XY0 fetched at A leaves pc at A + 4 when Vx # Vy and at A + 2    *)
(* when Vx = Vy.                                                           *)
(***************************************************************************)
C12_SkipNotEqual ==
  Ticked /\ OpClass = 9 =>
    pc = old.pc + (IF OldVx # OldVy THEN 4 ELSE 2)

(***************************************************************************)
(* C13.  Key wait.  A tick of FX0A without a key does not move pc past the *)
(* instruction; a tick of FX0A with key k stores k in Vx and goes on to    *)
(* the next instruction.                                                   *)
(***************************************************************************)
C13_KeyWait ==
  Ticked /\ IsF(10) =>
    IF keypress = None
    THEN pc = old.pc
    ELSE reg[opcode.x] = keypress[1] /\ pc = old.pc + 2

(***************************************************************************)
(* C14.  EXA1 fetched at A leaves pc at A + 2 only when a key is pressed   *)
(* and equals Vx; with another key, or no key, pressed it skips to A + 4.  *)
(***************************************************************************)
KeyIsVx == keypress # None /\ keypress[1] = OldVx

C14_SkipKeyNotPressed ==
  Ticked /\ OpClass = 14 /\ opcode.nn = 161 =>
    pc = old.pc + (IF KeyIsVx THEN 2 ELSE 4)

(***************************************************************************)
(* C15.  EX9E fetched at A leaves pc at A + 4 exactly when a key is        *)
(* pressed in this tick and equals Vx, and at A + 2 otherwise.             *)
(***************************************************************************)
C15_SkipKeyPressed ==
  Ticked /\ OpClass = 14 /\ opcode.nn = 158 =>
    pc = old.pc + (IF KeyIsVx THEN 4 ELSE 2)

(***************************************************************************)
(* C16.  After any run, reset puts the machine in the state new produces:  *)
(* pc = 0x200, the font and otherwise zero memory, zero registers, I and   *)
(* timers, a cleared display, redraw false, no keypress, and an empty call *)
(* stack.                                                                  *)
(***************************************************************************)
C16_ResetIsNew ==
  step = "reset" =>
    /\ is_empty(stack)
    /\ [Self EXCEPT !.stack = Stack_new] = Chip8_new

(***************************************************************************)
(* C17.  The font is immutable: in every state reachable by ticks of any   *)
(* program, memory[0x000 .. 0x04F] is the 80-byte font table.              *)
(***************************************************************************)
C17_FontImmutable ==
  \A i \in 0 .. Len(FONT) - 1 : memory[i] = FONT[i + 1]

(***************************************************************************)
(* C18.  Every address a tick reads or writes is reduced to 0 .. 4095: no  *)
(* tick ends in an access past the end of memory.                          *)
(***************************************************************************)
C18_AddressesInRange == step = "tick" => status # "panicked"

(***************************************************************************)
(* C19.  load_rom of a file longer than 4096 - 0x200 bytes returns an      *)
(* error: the process goes on running and memory is untouched.  A file     *)
(* that fits is copied byte for byte to memory[0x200 .. 0x200 + len) and   *)
(* the rest of memory keeps its content.                                   *)
(***************************************************************************)
RomCopied(bytes) ==
  \A i \in 0 .. MEM_SIZE - 1 :
    memory'[i] = (IF i >= PROG_START /\ i < PROG_START + Len(bytes)
                  THEN bytes[i - PROG_START + 1]
                  ELSE memory[i])

C19_LoadRomChecked ==
  [][ \A bytes \in RomFiles :
        LoadRom(bytes) =>
          /\ status' = "running"
          /\ IF Len(bytes) + PROG_START > MEM_SIZE
             THEN memory' = memory
             ELSE RomCopied(bytes) ]_vars

(***************************************************************************)
(* C20.  An opcode no arm of execute recognizes (8XY8 .. 8XYD, 8XYF, EXNN  *)
(* other than 9E and A1, FXNN outside the defined set) is a no-op: the     *)
(* tick advances pc by 2 and leaves the registers, I, memory, the call     *)
(* stack and the display as they were.                                     *)
(***************************************************************************)
IsUnknown ==
  \/ OpClass = 8 /\ opcode.n \notin (0 .. 7) \cup {14}
  \/ OpClass = 14 /\ opcode.nn \notin {158, 161}
  \/ OpClass = 15 /\ opcode.nn \notin {7, 10, 21, 24, 30, 41, 51, 85, 101}

C20_UnknownIsNoOp ==
  Ticked /\ IsUnknown =>
    /\ pc = old.pc + 2
    /\ reg = old.reg
    /\ reg_i = old.reg_i
    /\ memory = old.memory
    /\ stack = old.stack
    /\ display = old.display

\* FAFF was fetched at 0x204 with V[A] = 255 and I = 0x300
C20_Witness ==
  /\ Ticked /\ IsUnknown
  /\ opcode.code = WordXNN(15, 10, 255)
  /\ old.pc = PROG_START + 4 /\ pc = PROG_START + 6
  /\ reg[10] = 255 /\ reg_i = PROG_START + 256

(***************************************************************************)
(* C21.  0NNN, any word 0x0NNN other than 00E0 and 00EE.                   *)
(***************************************************************************)
IsMachineCall == OpClass = 0 /\ opcode.code \notin {224, 238}

MachineStateKept ==
  /\ reg = old.reg
  /\ reg_i = old.reg_i
  /\ memory = old.memory
  /\ stack = old.stack
  /\ display = old.display

RedrawAfterDisplayOp ==
  Ticked /\ (IsDraw \/ opcode.code = 224) => redraw

TickKeepsRedraw == step' = "tick" /\ redraw => redraw'

C22_RedrawFlag == [] RedrawAfterDisplayOp /\ [][TickKeepsRedraw]_vars

(***************************************************************************)
(* C23.  FX33 with I, I + 1 and I + 2 in memory stores the decimal digits  *)
(* of Vx: memory[I], memory[I + 1], memory[I + 2] are digits 0 .. 9 with   *)
(* 100 * memory[I] + 10 * memory[I + 1] + memory[I + 2] = Vx; I, every     *)
(* register and every other memory byte keep their values.                 *)
(***************************************************************************)
Executed == step = "tick" /\ InMemory(old.pc + 1)

C23_StoreBcd ==
  Executed /\ IsF(51) /\ InMemory(old.reg_i + 2) =>
    /\ status = "running"
    /\ \A k \in 0 .. 2 : memory[old.reg_i + k] \in 0 .. 9
    /\ 100 * memory[old.reg_i] + 10 * memory[old.reg_i + 1] + memory[old.reg_i + 2]
         = OldVx
    /\ reg_i = old.reg_i
    /\ reg = old.reg
    /\ \A i \in 0 .. MEM_SIZE - 1 :
         i \notin old.reg_i .. old.reg_i + 2 => memory[i] = old.memory[i]

\* 123 was stored as 1, 2, 3 at 0x300
C23_Witness ==
  /\ Executed /\ IsF(51) /\ status = "running"
  /\ OldVx = 123 /\ old.reg_i = PROG_START + 256
  /\ memory[PROG_START + 256] = 1
  /\ memory[PROG_START + 257] = 2
  /\ memory[PROG_START + 258] = 3

(***************************************************************************)
(* C24.  FX55 with I .. I + x in memory stores V0 .. Vx there              *)
(* (memory[I + k] = Vk for k in 0 .. x), leaves I and every register       *)
(* unchanged and changes no other memory byte.                             *)
(***************************************************************************)
C24_StoreRegisters ==
  Executed /\ IsF(85) /\ InMemory(old.reg_i + opcode.x) =>
    /\ status = "running"
    /\ \A k \in 0 .. opcode.x : memory[old.reg_i + k] = old.reg[k]
    /\ reg_i = old.reg_i
    /\ reg = old.reg
    /\ \A i \in 0 .. MEM_SIZE - 1 :
         i \notin old.reg_i .. old.reg_i + opcode.x => memory[i] = old.memory[i]

(***************************************************************************)
(* C25.  FX65 with I .. I + x in memory loads Vk = memory[I + k] for k in  *)
(* 0 .. x, leaves V(x+1) .. VF unchanged, and leaves I and memory          *)
(* unchanged.                                                              *)
(***************************************************************************)
C25_FillRegisters ==
  Executed /\ IsF(101) /\ InMemory(old.reg_i + opcode.x) =>
    /\ status = "running"
    /\ \A k \in 0 .. opcode.x : reg[k] = old.memory[old.reg_i + k]
    /\ \A k \in opcode.x + 1 .. NREG - 1 : reg[k] = old.reg[k]
    /\ reg_i = old.reg_i
    /\ memory = old.memory

\* F165 with I = 0 loaded the first two font bytes and left V2 = 7
C25_Witness ==
  /\ Executed /\ IsF(101) /\ status = "running"
  /\ opcode.x = 1 /\ old.reg_i = 0
  /\ old.reg[0] = 0 /\ old.reg[1] = 0
  /\ reg[0] = FONT[1] /\ reg[1] = FONT[2] /\ reg[2] = 7

(***************************************************************************)
(* C26.  8XY7 (x other than F) sets Vx to (Vy - Vx) mod 256 and VF to 1    *)
(* exactly when Vy >= Vx, to 0 when Vy < Vx.                               *)
(***************************************************************************)
C26_SubReversed ==
  Ticked /\ IsAlu(7) /\ opcode.x # VF =>
    /\ reg[opcode.x] = (OldVy - OldVx) % 256
    /\ reg[VF] = (IF OldVy >= OldVx THEN 1 ELSE 0)

(***************************************************************************)
(* C27.  The shifts (x other than F) capture the bit shifted out: 8XY6     *)
(* sets VF to the old Vx mod 2 and Vx to the old Vx div 2; 8XYE sets VF to *)
(* the old bit 7 of Vx and Vx to (old Vx * 2) mod 256.                     *)
(***************************************************************************)
C27_Shifts ==
  /\ Ticked /\ IsAlu(6) /\ opcode.x # VF =>
        reg[VF] = OldVx % 2 /\ reg[opcode.x] = OldVx \div 2
  /\ Ticked /\ IsAlu(14) /\ opcode.x # VF =>
        reg[VF] = OldVx \div 128 /\ reg[opcode.x] = (OldVx * 2) % 256

(***************************************************************************)
(* C28.  8XY1, 8XY2 and 8XY3 set Vx to the bitwise OR, AND and XOR of the  *)
(* old Vx and Vy, and leave every other register, Vy among them when       *)
(* y # x, unchanged.                                                       *)
(***************************************************************************)
BitOr(a, b) == a + b - BitAnd(a, b)

BitXor(a, b) == a + b - 2 * BitAnd(a, b)

C28_Bitwise ==
  Ticked /\ OpClass = 8 /\ opcode.n \in {1, 2, 3} =>
    /\ reg[opcode.x] = (CASE opcode.n = 1 -> BitOr(OldVx, OldVy)
                           [] opcode.n = 2 -> BitAnd(OldVx, OldVy)
                           [] opcode.n = 3 -> BitXor(OldVx, OldVy))
    /\ \A r \in 0 .. NREG - 1 : r # opcode.x => reg[r] = old.reg[r]

(***************************************************************************)
(* C29.  Timers saturate at zero: both timers are always in 0 .. 255, and  *)
(* the decrement of a tick leaves a timer that is 0 at 0 (the tick of FX15 *)
(* or FX18 then sets the timer to Vx).                                     *)
(***************************************************************************)
C29_TimersSaturate ==
  /\ delay_timer \in 0 .. 255
  /\ sound_timer \in 0 .. 255
  /\ Ticked /\ old.delay_timer = 0 /\ ~IsF(21) => delay_timer = 0
  /\ Ticked /\ old.sound_timer = 0 /\ ~IsF(24) => sound_timer = 0

\* the delay timer, set to 1 two ticks ago, stays at 0 while the sound
\* timer goes from 1 to 0
C29_Witness ==
  /\ Ticked /\ OpClass = 6
  /\ old.delay_timer = 0 /\ delay_timer = 0
  /\ old.sound_timer = 1 /\ sound_timer = 0
  /\ reg[10] = 1

(***************************************************************************)
(* C30.  Big-endian round trip.  After load_vec(words) on the new machine  *)
(* the bytes at 0x200 + 2i and 0x200 + 2i + 1 are the high and the low     *)
(* byte of words[i] and fetch with pc = 0x200 + 2i returns an opcode whose *)
(* code is words[i]; so does the fetch of every later tick whose pc is the *)
(* address of a word of the program.                                       *)
(***************************************************************************)
WordAddr(i) == PROG_START + 2 * (i - 1)

LoadedBigEndian ==
  step = "load_vec" =>
    /\ status = "running"
    /\ \A i \in 1 .. Len(loaded) :
         /\ memory[WordAddr(i)] = loaded[i] \div 256
         /\ memory[WordAddr(i) + 1] = loaded[i] % 256
         /\ fetch([Self EXCEPT !.pc = WordAddr(i)]).code = loaded[i]

TickFetchesWord ==
  Ticked =>
    \A i \in 1 .. Len(loaded) : old.pc = WordAddr(i) => opcode.code = loaded[i]

C30_LoadFetchRoundTrip == LoadedBigEndian /\ TickFetchesWord

\* the third word of a program, FA33, was fetched from 0x204, 0x205
C30_Witness ==
  /\ Ticked
  /\ Len(loaded) >= 3
  /\ loaded[3] = WordXNN(15, 10, 51)
  /\ old.pc = WordAddr(3)
  /\ memory[WordAddr(3)] = 250 /\ memory[WordAddr(3) + 1] = 51
  /\ opcode.code = loaded[3]

(***************************************************************************)
(* C31.  pc starts at 0x200 and stays even as long as every executed jump  *)
(* or call goes to an even NNN: a tick from a state whose pc and stacked   *)
(* return addresses are even, executing anything but a jump or call to an  *)
(* odd NNN, ends in such a state again.  Every executed instruction that   *)
(* is not a jump, call, return or taken skip leaves pc at the address it   *)
(* was fetched from plus 2.  The jumps are the instructions whose handler  *)
(* assigns NNN to pc, 1NNN and 0NNN; the call is 2NNN.                     *)
(***************************************************************************)
IsJump(code) == code \div 4096 \in {0, 1} /\ code \notin {224, 238}

TakenSkip == OpClass \in {3, 4, 5, 9, 14} /\ pc = old.pc + 4

AlignedState ==
  /\ pc % 2 = 0
  /\ \A i \in 1 .. Len(shadow) : shadow[i] % 2 = 0

StartsAligned == step \in {"new", "load_vec"} => pc = PROG_START /\ AlignedState

NonJumpAdvances ==
  Ticked /\ ~ IsJump(opcode.code) /\ ~ IsCall(opcode.code)
         /\ ~ IsReturn(opcode.code) /\ ~ TakenSkip =>
    pc = old.pc + 2

AlignedStep ==
  /\ AlignedState
  /\ step' = "tick"
  /\ InMemory(pc + 1) /\ (IsJump(opcode'.code) \/ IsCall(opcode'.code))
        => opcode'.nnn % 2 = 0
  => AlignedState'

Depth == Len(shadow)

StackSlots == 0 .. STACK_SIZE - 1

Pushed == (step = "push" /\ status = "running") \/ (Ticked /\ IsCall(opcode.code))

Popped == (step = "pop" /\ status = "running") \/ (Ticked /\ IsReturn(opcode.code))

StackExited ==
  /\ status = "exited"
  /\ step \in {"push", "pop"} \/ (step = "tick" /\ InMemory(old.pc + 1))

DepthInRange ==
  /\ stack.top \in -1 .. STACK_SIZE - 1
  /\ Depth = stack.top + 1
  /\ Depth \in 0 .. STACK_SIZE
  /\ DOMAIN stack.stack = StackSlots
  /\ is_empty(stack) <=> Depth = 0
  /\ is_full(stack) <=> Depth = STACK_SIZE

IndexInRange ==
  /\ Pushed => stack.top \in StackSlots /\ stack.top = old.stack.top + 1
  /\ Popped => old.stack.top \in StackSlots /\ stack.top = old.stack.top - 1
  /\ StackExited =>
        /\ stack = old.stack
        /\ is_full(stack) \/ is_empty(stack)

C32_StackDepth == DepthInRange /\ IndexInRange

\* the push that filled the last slot, 31
C32_Witness ==
  /\ step = "push" /\ status = "running"
  /\ old.stack.top = STACK_SIZE - 2
  /\ stack.top = STACK_SIZE - 1
  /\ is_full(stack) /\ ~ is_empty(stack)
  /\ Depth = STACK_SIZE

=============================================================================
